---- MODULE Spec2Model ----
(***************************************************************************)
(* Model of the orders service: OrderHandler.CreateOrder with its request  *)
(* binding, OrderService.CreateOrder with its idempotency lookup, order    *)
(* persistence, idempotency write and the non-blocking event emission, the *)
(* two tables behind OrderRepository, the buffered event channel, the      *)
(* background Worker and main's shutdown sequence.                         *)
(*                                                                         *)
(* Every SQL statement is one atomic step (autocommit); a statement that   *)
(* returns an error has changed nothing. Time is a single clock shared by  *)
(* time.Now() and the database's NOW().                                    *)
(***************************************************************************)
EXTENDS Integers, Sequences, FiniteSets, TLC

\* ----------------------------------------------------------------- bounds
\* Request handlers that may run (each serves one POST /orders).
NumReqs == 2
\* The clock stops at MaxTime.
MaxTime == 11
\* The largest EVENT_QUEUE_SIZE a deployment is configured with.
MaxEventQueueSize == 2

\* ------------------------------------------------------ program constants
\* validityDuration := 10 * time.Minute (the clock counts minutes).
ValidityDuration == 10
\* The zero time.Time (IsZero) and the first reading of the clock.
ZeroTime == 0
StartTime == ZeroTime + 1
\* The clock advances by half a validity window at a time.
ClockStep == ValidityDuration \div 2
\* http.StatusBadRequest, http.StatusCreated, http.StatusInternalServerError
StatusBadRequest == 400
StatusCreated == 201
StatusOK == 200
StatusNotFound == 404
StatusInternalServerError == 500

Reqs == 1..NumReqs
\* One more handler; only the specification of parallel requests starts it.
Replayer == NumReqs + 1
Handlers == Reqs \cup {Replayer}

\* ------------------------------------------------------------ input sets
EndpointNames == {"/orders"}
EndpointSchemes == {"POST"}
\* The endpoint identities a caller of OrderService.CreateOrder can pass.
ServiceEndpointNames == EndpointNames \cup {"/returns"}
ServiceEndpointSchemes == EndpointSchemes \cup {"PUT"}
FirstKey == "k1"
IdempotencyKeys == {FirstKey, "k2"}
OrderTimes == {ZeroTime, StartTime}

\* models.CreateOrderRequest
CreateOrderRequests ==
  [CustomerID : {"c1"}, ProductID : {"p1"}, Quantity : {2},
   TotalPrice : {10050}, OrderTime : OrderTimes,
   IdempotencyKey : IdempotencyKeys]

\* The zero value of models.Order (ID "" is written 0; uuids are 1, 2, ...).
NoID == 0
ZeroOrder ==
  [ID |-> NoID, CustomerID |-> "", ProductID |-> "", Quantity |-> 0,
   TotalPrice |-> 0, Status |-> "", OrderTime |-> ZeroTime,
   CreatedAt |-> ZeroTime, UpdatedAt |-> ZeroTime]

\* ------------------------------------------------------------------ state
VARIABLES
  EventQueueSize,    \* cfg.EventQueueSize: the capacity of eventChan
  mainPc,            \* main's position: serving, then the shutdown sequence
  stopChan,          \* Worker.stopChan is closed
  workerCtxDone,     \* workerCtx.Done() is closed
  workerDone,        \* Worker.Start has returned
  emitted,           \* order ids logged "OrderCreated event emitted", in order
  processed,         \* order ids logged "OrderCreated event processed successfully"
  body,              \* per request: the JSON body the handler received
  now,               \* the clock
  uuidSeq,           \* number of uuids drawn so far by uuid.New()
  orders,            \* table orders: a set of rows
  idempotency_keys,  \* table idempotency_keys: a set of rows
  eventChan,         \* the buffered channel, oldest event first
  workerEvent,       \* the event the Worker is processing, or <<>>
  pc,                \* per request: position in the handler
  call,              \* per request: endpointName, endpointScheme, req
  ctxDone,           \* per request: ctx.Done() is closed
  saved,             \* per request: savedResponse of the idempotency lookup
  res,               \* per request: how each step of CreateOrder ended
  order,             \* per request: the local *models.Order
  ret,               \* per request: what CreateOrder returned, and the HTTP status
  before,            \* per request: the requests that had returned when it began
  got                \* the last GET /orders/:id: the id asked for, whether the
                     \* query failed, and the answer

vars == <<EventQueueSize, mainPc, stopChan, workerCtxDone, workerDone, emitted,
          processed, body, now, uuidSeq, orders, idempotency_keys, eventChan,
          workerEvent, pc, call, ctxDone, saved, res, order, ret, before, got>>

storeVars == <<orders, idempotency_keys>>
workerVars == <<workerEvent, workerDone, processed>>
\* The configuration and what main's shutdown sequence writes.
mainVars == <<EventQueueSize, mainPc, stopChan, workerCtxDone>>

\* ------------------------------------------------------------------- JSON
\* A nil []byte, and a JSONB value that is no JSON object.
NilBytes == [kind |-> "nil"]
ForeignJSON == [kind |-> "string"]

\* json.Marshal(order): the struct's fields under their json tags.
MarshalOrder(o) ==
  [kind |-> "object", id |-> o.ID, customer_id |-> o.CustomerID,
   product_id |-> o.ProductID, quantity |-> o.Quantity,
   total_price |-> o.TotalPrice, status |-> o.Status,
   order_time |-> o.OrderTime, created_at |-> o.CreatedAt,
   updated_at |-> o.UpdatedAt]

\* Mutant of UnmarshalOrder: the quantity's json tag does not match, so the
\* field keeps its zero value.
UnmarshalOrderTagTypo(j) ==
  IF j.kind = "object"
  THEN [err |-> FALSE,
        order |-> [ID |-> j.id, CustomerID |-> j.customer_id,
                   ProductID |-> j.product_id, Quantity |-> 0,
                   TotalPrice |-> j.total_price, Status |-> j.status,
                   OrderTime |-> j.order_time, CreatedAt |-> j.created_at,
                   UpdatedAt |-> j.updated_at]]
  ELSE [err |-> TRUE, order |-> ZeroOrder]

\* json.Unmarshal(savedResponse, &order): an error unless the value is an object.
UnmarshalOrder(j) ==
  IF j.kind = "object"
  THEN [err |-> FALSE,
        order |-> [ID |-> j.id, CustomerID |-> j.customer_id,
                   ProductID |-> j.product_id, Quantity |-> j.quantity,
                   TotalPrice |-> j.total_price, Status |-> j.status,
                   OrderTime |-> j.order_time, CreatedAt |-> j.created_at,
                   UpdatedAt |-> j.updated_at]]
  ELSE [err |-> TRUE, order |-> ZeroOrder]

\* ------------------------------------------------------------- repository
\* Mutant of DBErrs: a statement does not look at its context.
DBErrsIgnoreCtx(r) == BOOLEAN

\* database/sql fails a statement at once when ctx is done; otherwise the
\* statement succeeds or fails.
DBErrs(r) == IF ctxDone[r] THEN {TRUE} ELSE BOOLEAN

\* Mutant of FillOrder: the identifier drawn is the one drawn before.
FillOrderReusesID(o, id, t) ==
  [o EXCEPT !.ID = IF id > 1 THEN id - 1 ELSE id,
            !.OrderTime = IF o.OrderTime = ZeroTime THEN t ELSE o.OrderTime,
            !.CreatedAt = t, !.UpdatedAt = t, !.Status = "created"]

\* The order as OrderRepository.CreateOrder fills it before the INSERT.
FillOrder(o, id, t) ==
  [o EXCEPT !.ID = id,
            !.OrderTime = IF o.OrderTime = ZeroTime THEN t ELSE o.OrderTime,
            !.CreatedAt = t, !.UpdatedAt = t, !.Status = "created"]

\* Mutant of ValidRows: the expiry is compared with >= instead of >.
ValidRowsNotStrict(name, scheme, key) ==
  {row \in idempotency_keys :
     /\ row.endpoint_name = name
     /\ row.endpoint_scheme = scheme
     /\ row.key = key
     /\ row.valid_to >= now}

\* Mutant of ValidRows: the rows are selected by key alone.
ValidRowsAnyEndpoint(name, scheme, key) ==
  {row \in idempotency_keys : row.key = key /\ row.valid_to > now}

\* WHERE endpoint_name = $1 AND endpoint_scheme = $2 AND key = $3 AND valid_to > NOW()
ValidRows(name, scheme, key) ==
  {row \in idempotency_keys :
     /\ row.endpoint_name = name
     /\ row.endpoint_scheme = scheme
     /\ row.key = key
     /\ row.valid_to > now}

\* OrderRepository.GetIdempotencyResponse
GetIdempotencyResponse(name, scheme, key, dbErr) ==
  IF dbErr THEN [response |-> NilBytes, err |-> "error"]
  ELSE IF ValidRows(name, scheme, key) = {}
       THEN [response |-> NilBytes, err |-> "ErrIdempotencyNotFound"]
       ELSE [response |-> (CHOOSE row \in ValidRows(name, scheme, key) : TRUE).response,
             err |-> "nil"]

\* Mutant of Upsert: the conflict target is not the key-triple; any row of the
\* table conflicts.
UpsertAnyRow(name, scheme, key, responseJSON, validTo, createdAt) ==
  IF idempotency_keys = {}
  THEN {[endpoint_name |-> name, endpoint_scheme |-> scheme, key |-> key,
         response |-> responseJSON, valid_to |-> validTo,
         created_at |-> createdAt]}
  ELSE {[row EXCEPT !.response = responseJSON, !.valid_to = validTo] :
          row \in idempotency_keys}

\* Mutant of Upsert: a plain INSERT into a table without the primary key.
UpsertAppends(name, scheme, key, responseJSON, validTo, createdAt) ==
  idempotency_keys \cup
    {[endpoint_name |-> name, endpoint_scheme |-> scheme, key |-> key,
      response |-> responseJSON, valid_to |-> validTo, created_at |-> createdAt]}

\* Mutant of Upsert: ON CONFLICT DO NOTHING, the first record stays.
UpsertDoNothing(name, scheme, key, responseJSON, validTo, createdAt) ==
  LET conflict == {row \in idempotency_keys :
                     /\ row.endpoint_name = name
                     /\ row.endpoint_scheme = scheme
                     /\ row.key = key}
  IN IF conflict = {}
     THEN idempotency_keys \cup
            {[endpoint_name |-> name, endpoint_scheme |-> scheme, key |-> key,
              response |-> responseJSON, valid_to |-> validTo,
              created_at |-> createdAt]}
     ELSE idempotency_keys

\* INSERT ... ON CONFLICT (endpoint_name, endpoint_scheme, key) DO UPDATE
\* SET response = EXCLUDED.response, valid_to = EXCLUDED.valid_to
Upsert(name, scheme, key, responseJSON, validTo, createdAt) ==
  LET conflict == {row \in idempotency_keys :
                     /\ row.endpoint_name = name
                     /\ row.endpoint_scheme = scheme
                     /\ row.key = key}
  IN IF conflict = {}
     THEN idempotency_keys \cup
            {[endpoint_name |-> name, endpoint_scheme |-> scheme, key |-> key,
              response |-> responseJSON, valid_to |-> validTo,
              created_at |-> createdAt]}
     ELSE (idempotency_keys \ conflict) \cup
            {[row EXCEPT !.response = responseJSON, !.valid_to = validTo] :
               row \in conflict}

\* OrderRepository.StoreIdempotencyResponse, when the statement succeeds.
StoreIdempotencyResponse(name, scheme, key, response, validityDuration) ==
  Upsert(name, scheme, key, MarshalOrder(response), now + validityDuration, now)

\* events.OrderCreatedEvent built from the persisted order.
NewEvent(o) ==
  [OrderID |-> o.ID, CustomerID |-> o.CustomerID, ProductID |-> o.ProductID,
   Quantity |-> o.Quantity, TotalPrice |-> o.TotalPrice, Timestamp |-> now]

\* OrderHandler.CreateOrder: the status written for what the service returned.
HTTPStatus(err) == IF err = "nil" THEN StatusCreated ELSE StatusInternalServerError

\* ------------------------------------------------------------------- Init
NoEvent == <<>>
\* The zero value of models.CreateOrderRequest; no call yet.
ZeroRequest ==
  [CustomerID |-> "", ProductID |-> "", Quantity |-> 0, TotalPrice |-> 0,
   OrderTime |-> ZeroTime, IdempotencyKey |-> ""]
NoCall == [endpointName |-> "", endpointScheme |-> "", req |-> ZeroRequest]
NoRes == [lookup |-> "none", create |-> "none", store |-> "none", emit |-> "none"]
\* ret before the return; a returned nil *models.Order is written ZeroOrder.
NoRet == [order |-> ZeroOrder, err |-> "none", status |-> 0]
\* No GET has been answered yet.
NoGot ==
  [id |-> NoID, failed |-> FALSE, err |-> "none", status |-> 0, order |-> ZeroOrder]

\* ---------------------------------------------------------- request body
\* A member of the JSON body: absent, or a value of the kind the client sent.
\* A number with a fractional part has kind "fraction".
Absent(zero) == [kind |-> "absent", val |-> zero]
Str(v) == [kind |-> "string", val |-> v]
Num(v) == [kind |-> "number", val |-> v]
Frac(v) == [kind |-> "fraction", val |-> v]
Time(v) == [kind |-> "time", val |-> v]

\* The body a client sends for a request; order_time is optional.
BodyOf(rq) ==
  [customer_id |-> Str(rq.CustomerID), product_id |-> Str(rq.ProductID),
   quantity |-> Num(rq.Quantity), total_price |-> Num(rq.TotalPrice),
   order_time |-> IF rq.OrderTime = ZeroTime THEN Absent(ZeroTime)
                  ELSE Time(rq.OrderTime),
   idempotency_key |-> Str(rq.IdempotencyKey)]

\* The empty object, and the bodies that do not bind: one well-formed body
\* with one member changed.
NoBody == BodyOf(ZeroRequest)
BaseBody == BodyOf(CHOOSE rq \in CreateOrderRequests :
                     rq.OrderTime = ZeroTime /\ rq.IdempotencyKey = FirstKey)
InvalidBodies ==
  {[BaseBody EXCEPT !.quantity = q] :
     q \in {Num(0), Num(0 - 1), Frac(1), Absent(0)}}
  \cup {[BaseBody EXCEPT !.total_price = t] : t \in {Num(0), Num(0 - 1), Absent(0)}}
  \cup {[BaseBody EXCEPT !.customer_id = Absent("")],
        [BaseBody EXCEPT !.product_id = Absent("")],
        [BaseBody EXCEPT !.idempotency_key = Absent("")]}
RequestBodies == {BodyOf(rq) : rq \in CreateOrderRequests} \cup InvalidBodies

\* encoding/json into CreateOrderRequest: an absent member leaves the zero
\* value; a number with a fractional part does not fit the int Quantity.
DecodeJSON(b) ==
  IF b.quantity.kind = "fraction"
  THEN [err |-> TRUE, req |-> ZeroRequest]
  ELSE [err |-> FALSE,
        req |-> [CustomerID |-> b.customer_id.val, ProductID |-> b.product_id.val,
                 Quantity |-> b.quantity.val, TotalPrice |-> b.total_price.val,
                 OrderTime |-> b.order_time.val,
                 IdempotencyKey |-> b.idempotency_key.val]]

\* Mutant of ValidateStruct: Quantity carries "required" without "min=1".
ValidateStructNoMin(rq) ==
  /\ rq.CustomerID # ""
  /\ rq.ProductID # ""
  /\ rq.Quantity # 0
  /\ rq.TotalPrice # 0 /\ rq.TotalPrice >= 0
  /\ rq.IdempotencyKey # ""

\* The binding tags of CreateOrderRequest: "required" rejects the zero value,
\* "min" bounds the number. OrderTime's tag has no closing quote, so the
\* validator finds no rule for it.
ValidateStruct(rq) ==
  /\ rq.CustomerID # ""
  /\ rq.ProductID # ""
  /\ rq.Quantity # 0 /\ rq.Quantity >= 1
  /\ rq.TotalPrice # 0 /\ rq.TotalPrice >= 0
  /\ rq.IdempotencyKey # ""

\* c.ShouldBindJSON(&req): decode, then validate.
ShouldBindJSON(b) ==
  IF DecodeJSON(b).err THEN [err |-> TRUE, req |-> ZeroRequest]
  ELSE [err |-> ~ValidateStruct(DecodeJSON(b).req), req |-> DecodeJSON(b).req]

Init ==
  /\ EventQueueSize \in 1..MaxEventQueueSize
  /\ mainPc = "serving"
  /\ stopChan = FALSE
  /\ workerCtxDone = FALSE
  /\ now = StartTime
  /\ uuidSeq = 0
  /\ orders = {}
  /\ idempotency_keys = {}
  /\ eventChan = <<>>
  /\ workerEvent = NoEvent
  /\ workerDone = FALSE
  /\ emitted = <<>>
  /\ processed = <<>>
  /\ body = [r \in Handlers |-> NoBody]
  /\ pc = [r \in Handlers |-> "idle"]
  /\ call = [r \in Handlers |-> NoCall]
  /\ ctxDone = [r \in Handlers |-> FALSE]
  /\ saved = [r \in Handlers |-> NilBytes]
  /\ res = [r \in Handlers |-> NoRes]
  /\ order = [r \in Handlers |-> ZeroOrder]
  /\ ret = [r \in Handlers |-> NoRet]
  /\ before = [r \in Handlers |-> {}]
  /\ got = NoGot

\* The key-triple of request r, and of a row of idempotency_keys.
Triple(r) == <<call[r].endpointName, call[r].endpointScheme, call[r].req.IdempotencyKey>>
RowTriple(row) == <<row.endpoint_name, row.endpoint_scheme, row.key>>

\* ---------------------------------------------------------------- service
\* The listeners are open until srv.Shutdown closes them.
Accepting == mainPc \in {"serving", "stopped", "cancelled"}

\* return o, err (and the handler's c.JSON with the status).
Return(r, o, err) ==
  /\ pc' = [pc EXCEPT ![r] = "done"]
  /\ ret' = [ret EXCEPT ![r] = [order |-> o, err |-> err, status |-> HTTPStatus(err)]]

\* The order built from the request, before the repository fills it.
Draft(rq) ==
  [ZeroOrder EXCEPT !.CustomerID = rq.CustomerID, !.ProductID = rq.ProductID,
                    !.Quantity = rq.Quantity, !.TotalPrice = rq.TotalPrice,
                    !.OrderTime = rq.OrderTime]

\* The handler has bound the request and calls h.service.CreateOrder. The
\* handlers are interchangeable, so they begin in the order of their numbers;
\* so are the keys, so the first request's key is FirstKey.
BeginFrom(r, names, schemes) ==
  /\ Accepting
  /\ pc[r] = "idle"
  /\ \A q \in Reqs : q < r => pc[q] # "idle"
  /\ \E name \in names, scheme \in schemes, b \in RequestBodies :
       /\ ~ShouldBindJSON(b).err
       /\ r = 1 => ShouldBindJSON(b).req.IdempotencyKey = FirstKey
       /\ body' = [body EXCEPT ![r] = b]
       /\ call' = [call EXCEPT ![r] = [endpointName |-> name, endpointScheme |-> scheme,
                                    req |-> ShouldBindJSON(b).req]]
  /\ pc' = [pc EXCEPT ![r] = "lookup"]
  /\ before' = [before EXCEPT ![r] = {q \in Reqs : pc[q] = "done"}]
  /\ UNCHANGED <<now, uuidSeq, storeVars, eventChan, workerVars, mainVars, got, emitted,
                 ctxDone, saved, res, order, ret>>

\* POST /orders: the handler passes the route's path and method.
Begin(r) == BeginFrom(r, EndpointNames, EndpointSchemes)

\* OrderService.CreateOrder called with an endpoint identity of the caller's
\* choice.
ServiceCall(r) == BeginFrom(r, ServiceEndpointNames, ServiceEndpointSchemes)

\* The body does not bind: c.JSON(http.StatusBadRequest, ...) and return; the
\* service is not called.
BadRequest(r) ==
  /\ Accepting
  /\ pc[r] = "idle"
  /\ \A q \in Reqs : q < r => pc[q] # "idle"
  /\ \E b \in RequestBodies :
       /\ ShouldBindJSON(b).err
       /\ body' = [body EXCEPT ![r] = b]
  /\ pc' = [pc EXCEPT ![r] = "rejected"]
  /\ ret' = [ret EXCEPT ![r].status = StatusBadRequest]
  /\ UNCHANGED <<now, uuidSeq, storeVars, eventChan, workerVars, mainVars, got,
                 emitted, call, ctxDone, saved, res, order, before>>

\* Mutant of OnSaved: a hit also renews the record's validity.
OnSavedRenews(r, o) ==
  /\ Return(r, o, "nil")
  /\ idempotency_keys' =
       {IF RowTriple(row) = Triple(r)
        THEN [row EXCEPT !.valid_to = now + ValidityDuration] ELSE row :
          row \in idempotency_keys}
  /\ UNCHANGED <<uuidSeq, orders, eventChan, order>>

\* The saved response unmarshals: return &order, nil.
OnSaved(r, o) ==
  /\ Return(r, o, "nil")
  /\ UNCHANGED <<uuidSeq, storeVars, eventChan, order>>

\* The saved response does not unmarshal: warn and continue with the normal flow.
OnUnmarshalError(r) ==
  /\ pc' = [pc EXCEPT ![r] = "create"]
  /\ UNCHANGED <<uuidSeq, storeVars, eventChan, order, ret>>

\* Mutant of OnLookupError: an error other than not-found fails the request.
OnLookupErrorFatal(r, err) ==
  IF err = "ErrIdempotencyNotFound"
  THEN /\ pc' = [pc EXCEPT ![r] = "create"]
       /\ UNCHANGED <<uuidSeq, storeVars, eventChan, order, ret>>
  ELSE /\ Return(r, ZeroOrder, "error")
       /\ UNCHANGED <<uuidSeq, storeVars, eventChan, order>>

\* No saved response: ErrIdempotencyNotFound, or another error (warn); continue.
OnLookupError(r, err) ==
  /\ pc' = [pc EXCEPT ![r] = "create"]
  /\ UNCHANGED <<uuidSeq, storeVars, eventChan, order, ret>>

\* How the lookup ended: hit, badjson, miss or error.
LookupOutcome(g) ==
  IF g.err = "nil" /\ g.response # NilBytes
  THEN IF UnmarshalOrder(g.response).err THEN "badjson" ELSE "hit"
  ELSE IF g.err = "ErrIdempotencyNotFound" THEN "miss" ELSE "error"

\* Step 1: s.repo.GetIdempotencyResponse and the branches on its result.
Lookup(r) ==
  /\ pc[r] = "lookup"
  /\ \E dbErr \in DBErrs(r) :
       LET g == GetIdempotencyResponse(call[r].endpointName, call[r].endpointScheme,
                                       call[r].req.IdempotencyKey, dbErr)
       IN /\ saved' = [saved EXCEPT ![r] = g.response]
          /\ res' = [res EXCEPT ![r].lookup = LookupOutcome(g)]
          /\ IF g.err = "nil" /\ g.response # NilBytes
             THEN IF UnmarshalOrder(g.response).err
                  THEN OnUnmarshalError(r)
                  ELSE OnSaved(r, UnmarshalOrder(g.response).order)
             ELSE OnLookupError(r, g.err)
  /\ UNCHANGED <<now, workerVars, mainVars, got, emitted, body, call, ctxDone, before>>

\* Mutant of OnCreateError: the error is dropped and the flow continues.
OnCreateErrorIgnored(r) ==
  /\ pc' = [pc EXCEPT ![r] = "store"]
  /\ UNCHANGED <<storeVars, eventChan, ret>>

\* s.repo.CreateOrder failed: return nil, err.
OnCreateError(r) ==
  /\ Return(r, ZeroOrder, "error")
  /\ UNCHANGED <<storeVars, eventChan>>

\* s.repo.CreateOrder succeeded: the row is in the table.
OnCreated(r, o) ==
  /\ orders' = orders \cup {o}
  /\ pc' = [pc EXCEPT ![r] = "store"]
  /\ UNCHANGED <<idempotency_keys, eventChan, ret>>

\* Step 2: s.repo.CreateOrder.
Create(r) ==
  /\ pc[r] = "create"
  /\ \E dbErr \in DBErrs(r) :
       LET o == FillOrder(Draft(call[r].req), uuidSeq + 1, now)
       IN /\ uuidSeq' = uuidSeq + 1
          /\ order' = [order EXCEPT ![r] = o]
          /\ res' = [res EXCEPT ![r].create = IF dbErr THEN "error" ELSE "ok"]
          /\ IF dbErr THEN OnCreateError(r) ELSE OnCreated(r, o)
  /\ UNCHANGED <<now, workerVars, mainVars, got, emitted, body, call, ctxDone, saved,
                 before>>

\* Mutant of OnStoreError: the idempotency error fails the request.
OnStoreErrorFatal(r) ==
  /\ Return(r, ZeroOrder, "error")
  /\ UNCHANGED <<storeVars, eventChan>>

\* Mutant of OnStoreError: the request returns its order at once, without
\* the select.
OnStoreErrorSkipsEmit(r) ==
  /\ Return(r, order[r], "nil")
  /\ UNCHANGED <<storeVars, eventChan>>

\* s.repo.StoreIdempotencyResponse failed: warn, do not fail the request.
OnStoreError(r) ==
  /\ pc' = [pc EXCEPT ![r] = "emit"]
  /\ UNCHANGED <<storeVars, eventChan, ret>>

\* s.repo.StoreIdempotencyResponse succeeded.
OnStored(r) ==
  /\ idempotency_keys' =
       StoreIdempotencyResponse(call[r].endpointName, call[r].endpointScheme,
                                call[r].req.IdempotencyKey, order[r], ValidityDuration)
  /\ pc' = [pc EXCEPT ![r] = "emit"]
  /\ UNCHANGED <<orders, eventChan, ret>>

\* Step 3: s.repo.StoreIdempotencyResponse.
Store(r) ==
  /\ pc[r] = "store"
  /\ \E dbErr \in DBErrs(r) :
       /\ res' = [res EXCEPT ![r].store = IF dbErr THEN "error" ELSE "ok"]
       /\ IF dbErr THEN OnStoreError(r) ELSE OnStored(r)
  /\ UNCHANGED <<now, uuidSeq, workerVars, mainVars, got, emitted, body, call, ctxDone,
                 saved, order, before>>

\* Mutant of SelectCases: the select has no default case.
SelectCasesBlocking(r) ==
  {c \in {"send"} : Len(eventChan) < EventQueueSize}
    \cup {c \in {"ctxDone"} : ctxDone[r]}

\* Mutant of SelectCases: the send can proceed whatever the channel holds.
SelectCasesAlwaysSend(r) ==
  {"send"} \cup {c \in {"ctxDone"} : ctxDone[r]}

\* The cases of the select that can proceed; Go picks any one of them, and
\* the default case only when there is none.
SelectCases(r) ==
  LET ready == {c \in {"send"} : Len(eventChan) < EventQueueSize}
                 \cup {c \in {"ctxDone"} : ctxDone[r]}
  IN IF ready = {} THEN {"default"} ELSE ready

\* Mutant of OnSelect: on a full channel the oldest event makes room.
OnSelectDropsOldest(r, c) ==
  /\ eventChan' = IF c = "send" THEN Append(eventChan, NewEvent(order[r]))
                  ELSE IF c = "default" THEN Append(Tail(eventChan), NewEvent(order[r]))
                  ELSE eventChan
  /\ Return(r, order[r], "nil")

\* Mutant of OnSelect: the ctx.Done() case returns the context's error.
OnSelectCancelFails(r, c) ==
  /\ eventChan' = IF c = "send" THEN Append(eventChan, NewEvent(order[r]))
                  ELSE eventChan
  /\ IF c = "ctxDone" THEN Return(r, ZeroOrder, "error") ELSE Return(r, order[r], "nil")

\* Mutant of OnSelect: after a send the select runs again.
OnSelectAgain(r, c) ==
  /\ eventChan' = IF c = "send" THEN Append(eventChan, NewEvent(order[r]))
                  ELSE eventChan
  /\ IF c = "send" THEN UNCHANGED <<pc, ret>> ELSE Return(r, order[r], "nil")

\* The select case taken, and the return that follows all three.
OnSelect(r, c) ==
  /\ eventChan' = IF c = "send" THEN Append(eventChan, NewEvent(order[r]))
                  ELSE eventChan
  /\ Return(r, order[r], "nil")

\* Step 4: the event and the select; step 5: return order, nil.
Emit(r) ==
  /\ pc[r] = "emit"
  /\ \E c \in SelectCases(r) :
       /\ res' = [res EXCEPT ![r].emit = c]
       /\ emitted' = IF c = "send" THEN Append(emitted, order[r].ID) ELSE emitted
       /\ OnSelect(r, c)
  /\ UNCHANGED <<now, uuidSeq, storeVars, workerVars, mainVars, got, body, call, ctxDone,
                 saved, order, before>>

\* The request's context is cancelled (client gone, server closing).
Cancel(r) ==
  /\ pc[r] \in {"lookup", "create", "store", "emit"}
  /\ ~ctxDone[r]
  /\ ctxDone' = [ctxDone EXCEPT ![r] = TRUE]
  /\ UNCHANGED <<now, uuidSeq, storeVars, eventChan, workerVars, mainVars, got, emitted,
                 body, pc, call, saved, res, order, ret, before>>

\* ----------------------------------------------------------------- worker
\* Mutant of WorkerReceive: the worker takes the newest event of the channel.
WorkerReceiveNewest ==
  /\ ~workerDone
  /\ workerEvent = NoEvent
  /\ eventChan # <<>>
  /\ workerEvent' = eventChan[Len(eventChan)]
  /\ eventChan' = SubSeq(eventChan, 1, Len(eventChan) - 1)
  /\ UNCHANGED <<now, uuidSeq, storeVars, workerDone, processed, mainVars, got, emitted,
                 body, pc, call, ctxDone, saved, res, order, ret, before>>

\* Mutant of WorkerReceive: the event is read but stays in the channel.
WorkerReceivePeeks ==
  /\ ~workerDone
  /\ workerEvent = NoEvent
  /\ eventChan # <<>>
  /\ workerEvent' = Head(eventChan)
  /\ UNCHANGED <<now, uuidSeq, storeVars, eventChan, workerDone, processed, mainVars, got,
                 emitted, body, pc, call, ctxDone, saved, res, order, ret, before>>

\* case event := <-w.eventChan
WorkerReceive ==
  /\ ~workerDone
  /\ workerEvent = NoEvent
  /\ eventChan # <<>>
  /\ workerEvent' = Head(eventChan)
  /\ eventChan' = Tail(eventChan)
  /\ UNCHANGED <<now, uuidSeq, storeVars, workerDone, processed, mainVars, got, emitted,
                 body, pc, call, ctxDone, saved, res, order, ret, before>>

\* Mutant of WorkerProcessed: processEvent returns before its work is done.
WorkerProcessedEarly ==
  /\ workerEvent # NoEvent
  /\ workerEvent' = NoEvent
  /\ UNCHANGED <<now, uuidSeq, storeVars, eventChan, workerDone, processed, mainVars,
                 got, emitted, body, pc, call, ctxDone, saved, res, order, ret, before>>

\* w.processEvent returns, having logged the order id.
WorkerProcessed ==
  /\ workerEvent # NoEvent
  /\ workerEvent' = NoEvent
  /\ processed' = Append(processed, workerEvent.OrderID)
  /\ UNCHANGED <<now, uuidSeq, storeVars, eventChan, workerDone, mainVars, got, emitted,
                 body, pc, call, ctxDone, saved, res, order, ret, before>>

\* The worker leaves its loop: Start returns.
WorkerReturn ==
  /\ ~workerDone
  /\ workerEvent = NoEvent
  /\ workerDone' = TRUE
  /\ UNCHANGED <<now, uuidSeq, storeVars, eventChan, workerEvent, processed, mainVars, got,
                 emitted, body, pc, call, ctxDone, saved, res, order, ret, before>>

\* case <-ctx.Done()
WorkerExitCtx ==
  /\ workerCtxDone
  /\ WorkerReturn

\* Mutant of WorkerExitStop: the stop case is taken only once the context is
\* done as well.
WorkerExitStopNeedsCtx ==
  /\ stopChan
  /\ workerCtxDone
  /\ WorkerReturn

\* case <-w.stopChan
WorkerExitStop ==
  /\ stopChan
  /\ WorkerReturn

\* ------------------------------------------------------------------- main
\* <-quit, then worker.Stop(): close(w.stopChan).
MainStop ==
  /\ mainPc = "serving"
  /\ mainPc' = "stopped"
  /\ stopChan' = TRUE
  /\ UNCHANGED <<got, EventQueueSize, workerCtxDone, now, uuidSeq, storeVars, eventChan,
                 workerVars, emitted, body, pc, call, ctxDone, saved, res, order,
                 ret, before>>

\* workerCancel()
MainWorkerCancel ==
  /\ mainPc = "stopped"
  /\ mainPc' = "cancelled"
  /\ workerCtxDone' = TRUE
  /\ UNCHANGED <<got, EventQueueSize, stopChan, now, uuidSeq, storeVars, eventChan,
                 workerVars, emitted, body, pc, call, ctxDone, saved, res, order,
                 ret, before>>

\* srv.Shutdown(ctx) closes the listeners and starts to wait.
SrvShutdown ==
  /\ mainPc = "cancelled"
  /\ mainPc' = "shutdown"
  /\ UNCHANGED <<got, EventQueueSize, stopChan, workerCtxDone, now, uuidSeq, storeVars,
                 eventChan, workerVars, emitted, body, pc, call, ctxDone, saved, res,
                 order, ret, before>>

\* srv.Shutdown returns: no handler is running, or the 30 seconds are over.
SrvShutdownReturn ==
  /\ mainPc = "shutdown"
  /\ mainPc' = "exited"
  /\ UNCHANGED <<got, EventQueueSize, stopChan, workerCtxDone, now, uuidSeq, storeVars,
                 eventChan, workerVars, emitted, body, pc, call, ctxDone, saved, res,
                 order, ret, before>>

\* ------------------------------------------------------- GET /orders/:id
\* The ids a client asks for: those the service can have drawn, and one more.
GetIDs == 1..(NumReqs + 1)

\* OrderRepository.GetOrderByID with a row scan that ends in an error other
\* than sql.ErrNoRows handed back as it is.
RepoGetOrderByIDWrapsNoRows(id, dbErr) ==
  LET rows == {o \in orders : o.ID = id}
  IN  IF dbErr \/ rows = {}
        THEN [order |-> ZeroOrder, err |-> "error"]
        ELSE [order |-> CHOOSE o \in rows : TRUE, err |-> "nil"]

\* OrderRepository.GetOrderByID: the row with this id, ErrOrderNotFound when
\* the query returns no row, the driver's error otherwise.
RepoGetOrderByID(id, dbErr) ==
  LET rows == {o \in orders : o.ID = id}
  IN  IF dbErr THEN [order |-> ZeroOrder, err |-> "error"]
      ELSE IF rows = {} THEN [order |-> ZeroOrder, err |-> "ErrOrderNotFound"]
      ELSE [order |-> CHOOSE o \in rows : TRUE, err |-> "nil"]

\* OrderHandler.GetOrderByID: the status it writes for the service's answer.
GetStatus(id, err) ==
  IF id = NoID THEN StatusBadRequest
  ELSE IF err = "ErrOrderNotFound" THEN StatusNotFound
  ELSE IF err # "nil" THEN StatusInternalServerError
  ELSE StatusOK

\* GET /orders/:id, from the route to the response. OrderService.GetOrderByID
\* passes the repository's answer through.
GetOrderByID ==
  \E id \in GetIDs, dbErr \in BOOLEAN :
    LET a == RepoGetOrderByID(id, dbErr)
    IN  /\ Accepting
        /\ got' = [id |-> id, failed |-> dbErr, err |-> a.err,
                   status |-> GetStatus(id, a.err), order |-> a.order]
        /\ UNCHANGED <<now, uuidSeq, storeVars, eventChan, workerVars, mainVars,
                       emitted, body, pc, call, ctxDone, saved, res, order, ret,
                       before>>

\* ------------------------------------------------------------------ clock
Tick ==
  /\ now + ClockStep <= MaxTime
  /\ now' = now + ClockStep
  /\ UNCHANGED <<uuidSeq, storeVars, eventChan, workerVars, mainVars, got, emitted, body,
                 pc, call, ctxDone, saved, res, order, ret, before>>

\* The serving system: requests, the worker and the clock.
Next ==
  \/ \E r \in Reqs : Begin(r)
  \/ \E r \in Reqs : BadRequest(r)
  \/ \E r \in Reqs : Lookup(r)
  \/ \E r \in Reqs : Create(r)
  \/ \E r \in Reqs : Store(r)
  \/ \E r \in Reqs : Emit(r)
  \/ \E r \in Reqs : Cancel(r)
  \/ WorkerReceive
  \/ WorkerProcessed
  \/ Tick

Spec == Init /\ [][Next]_vars

\* A store that already holds an idempotency row whose JSONB value is not an
\* Order object (the table outlives the process and is not written by it alone).
ForeignRow ==
  [endpoint_name |-> "/orders", endpoint_scheme |-> "POST", key |-> FirstKey,
   response |-> ForeignJSON, valid_to |-> StartTime + ValidityDuration,
   created_at |-> StartTime]

InitDegraded ==
  /\ EventQueueSize \in 1..MaxEventQueueSize
  /\ mainPc = "serving"
  /\ stopChan = FALSE
  /\ workerCtxDone = FALSE
  /\ now = StartTime
  /\ uuidSeq = 0
  /\ orders = {}
  /\ idempotency_keys = {ForeignRow}
  /\ eventChan = <<>>
  /\ workerEvent = NoEvent
  /\ workerDone = FALSE
  /\ emitted = <<>>
  /\ processed = <<>>
  /\ body = [r \in Handlers |-> NoBody]
  /\ pc = [r \in Handlers |-> "idle"]
  /\ call = [r \in Handlers |-> NoCall]
  /\ ctxDone = [r \in Handlers |-> FALSE]
  /\ saved = [r \in Handlers |-> NilBytes]
  /\ res = [r \in Handlers |-> NoRes]
  /\ order = [r \in Handlers |-> ZeroOrder]
  /\ ret = [r \in Handlers |-> NoRet]
  /\ before = [r \in Handlers |-> {}]
  /\ got = NoGot

SpecDegraded == InitDegraded /\ [][Next]_vars

\* The system through its shutdown, on a clock that stands still: requests,
\* the worker with its two exits, and main's shutdown sequence.
NextShutdown ==
  \/ \E r \in Reqs : Begin(r)
  \/ \E r \in Reqs : Lookup(r)
  \/ \E r \in Reqs : Create(r)
  \/ \E r \in Reqs : Store(r)
  \/ \E r \in Reqs : Emit(r)
  \/ \E r \in Reqs : Cancel(r)
  \/ WorkerReceive
  \/ WorkerProcessed
  \/ WorkerExitCtx
  \/ WorkerExitStop
  \/ MainStop
  \/ MainWorkerCancel
  \/ SrvShutdown
  \/ SrvShutdownReturn

SpecShutdown == Init /\ [][NextShutdown]_vars

\* A healthy database: a statement of request r fails only when r's context
\* is done.
StoreHealthy(r) ==
  \/ ctxDone[r]
  \/ /\ res'[r].lookup # "error"
     /\ res'[r].create # "error"
     /\ res'[r].store # "error"

\* The system through its shutdown on a healthy database.
NextHealthy ==
  \/ \E r \in Reqs : Begin(r)
  \/ \E r \in Reqs : Lookup(r) /\ StoreHealthy(r)
  \/ \E r \in Reqs : Create(r) /\ StoreHealthy(r)
  \/ \E r \in Reqs : Store(r) /\ StoreHealthy(r)
  \/ \E r \in Reqs : Emit(r)
  \/ \E r \in Reqs : Cancel(r)
  \/ WorkerReceive
  \/ WorkerProcessed
  \/ WorkerExitCtx
  \/ WorkerExitStop
  \/ MainStop
  \/ MainWorkerCancel
  \/ SrvShutdown
  \/ SrvShutdownReturn

\* Three handlers on a healthy database and a clock that stands still: two
\* requests and a third that begins after them, none cancelled.
NextParallel ==
  \/ \E r \in Handlers : Begin(r)
  \/ \E r \in Handlers : Lookup(r) /\ StoreHealthy(r)
  \/ \E r \in Handlers : Create(r) /\ StoreHealthy(r)
  \/ \E r \in Handlers : Store(r) /\ StoreHealthy(r)
  \/ \E r \in Handlers : Emit(r)
  \/ WorkerReceive
  \/ WorkerProcessed

SpecParallel == Init /\ [][NextParallel]_vars

\* Requests that create orders on a database that may fail, and clients that
\* read orders back, with the clock standing still.
NextRead ==
  \/ \E r \in Reqs : Begin(r)
  \/ \E r \in Reqs : Lookup(r)
  \/ \E r \in Reqs : Create(r)
  \/ \E r \in Reqs : Store(r)
  \/ \E r \in Reqs : Emit(r)
  \/ GetOrderByID

SpecRead == Init /\ [][NextRead]_vars

\* The service called under several endpoint identities, on a database that
\* may fail, with the clock standing still.
NextScoped ==
  \/ \E r \in Reqs : ServiceCall(r)
  \/ \E r \in Reqs : Lookup(r)
  \/ \E r \in Reqs : Create(r)
  \/ \E r \in Reqs : Store(r)
  \/ \E r \in Reqs : Emit(r)

SpecScoped == Init /\ [][NextScoped]_vars

\* The worker's goroutine is scheduled as long as it has a step to take.
WorkerRuns ==
  WF_vars(WorkerReceive \/ WorkerProcessed \/ WorkerExitCtx \/ WorkerExitStop)

SpecHealthy == Init /\ [][NextHealthy]_vars /\ WorkerRuns

\* The serving system that is never told to shut down, with the worker's
\* goroutine scheduled.
SpecServing == Init /\ [][NextParallel]_vars /\ WorkerRuns

\* --------------------------------------------------------- claim vocabulary
Done(r) == pc[r] = "done"
\* The steps of request r, as actions.
LookupStep(r) == pc[r] = "lookup" /\ pc'[r] # "lookup"
CreateStep(r) == pc[r] = "create" /\ pc'[r] # "create"
StoreStep(r) == pc[r] = "store" /\ pc'[r] # "store"
EmitStep(r) == pc[r] = "emit" /\ pc'[r] # "emit"
\* The identifiers of the order rows created by requests carrying triple t.
RowsFor(t) == {order[r].ID : r \in {q \in Reqs : res[q].create = "ok" /\ Triple(q) = t}}
\* Everything so far happened less than one validity window after the start.
InFirstWindow == now < StartTime + ValidityDuration
\* No store operation has failed and no context was cancelled.
AllStoreOpsSucceeded ==
  \A r \in Reqs : /\ ~ctxDone[r]
                  /\ res[r].lookup # "error"
                  /\ res[r].create # "error"
                  /\ res[r].store # "error"

\* ------------------------------------------------------------------ claims
\* The idempotency row that holds request q's returned Order, unexpired.
RecordOfValid(q) ==
  \E row \in idempotency_keys :
    /\ RowTriple(row) = Triple(q)
    /\ row.response = MarshalOrder(ret[q].order)
    /\ row.valid_to > now

C2_AtMostOncePerKey ==
  (AllStoreOpsSucceeded /\ InFirstWindow)
  => \A r1, r2 \in Reqs :
       (Triple(r1) = Triple(r2) /\ res[r1].create = "ok" /\ res[r2].create = "ok")
       => r1 = r2

\* C3: a lookup returns only a record whose valid_to is strictly after now; a
\* request whose key-triple has only an expired record goes on to create, and
\* the order it creates has an identifier no order row and no cached Order has.
C3_Expiry ==
  [][\A r \in Reqs :
       /\ (LookupStep(r) /\ saved'[r] # NilBytes)
          => \E row \in idempotency_keys :
               /\ RowTriple(row) = Triple(r)
               /\ row.response = saved'[r]
               /\ row.valid_to > now
       /\ ( /\ LookupStep(r)
            /\ \E row \in idempotency_keys : RowTriple(row) = Triple(r)
            /\ \A row \in idempotency_keys :
                 RowTriple(row) = Triple(r) => row.valid_to <= now )
          => /\ pc'[r] = "create"
             /\ saved'[r] = NilBytes
             /\ ret'[r] = NoRet
       /\ (CreateStep(r) /\ res'[r].create = "ok")
          => /\ order'[r].ID # NoID
             /\ \A o \in orders : o.ID # order'[r].ID
             /\ \A row \in idempotency_keys :
                  row.response.kind = "object" => row.response.id # order'[r].ID
       /\ (EmitStep(r)) => ret'[r].order = order[r]]_vars

\* A request found the earlier record of its key-triple expired and returned
\* a new order with another identifier.
C3_Witness ==
  \E r1, r2 \in Reqs :
    /\ Done(r1) /\ Done(r2)
    /\ r1 \in before[r2]
    /\ Triple(r1) = Triple(r2)
    /\ res[r1].store = "ok"
    /\ res[r2].lookup = "miss"
    /\ ret[r2].err = "nil"
    /\ ret[r2].order.ID # ret[r1].order.ID
    /\ ret[r2].order \in orders

\* C4: a lookup that finds a valid record holding an Order returns that Order
\* and changes neither the orders, nor any idempotency record (response and
\* expiry), nor the event queue.
C4_HitFrame ==
  [][\A r \in Reqs :
       (LookupStep(r) /\ res'[r].lookup = "hit")
       => /\ pc'[r] = "done"
          /\ ret'[r].err = "nil"
          /\ \E row \in idempotency_keys :
               /\ RowTriple(row) = Triple(r)
               /\ row.valid_to > now
               /\ MarshalOrder(ret'[r].order) = row.response
          /\ orders' = orders
          /\ idempotency_keys' = idempotency_keys
          /\ eventChan' = eventChan]_vars

\* A request returned on a hit without creating; the clock is past the
\* record's write and the record still has the expiry its write gave it.
C4_Witness ==
  \E r \in Reqs :
    /\ Done(r)
    /\ res[r].lookup = "hit" /\ res[r].create = "none"
    /\ \E row \in idempotency_keys :
         /\ RowTriple(row) = Triple(r)
         /\ row.response = saved[r]
         /\ row.valid_to = row.created_at + ValidityDuration
         /\ now > row.created_at
         /\ now < row.valid_to
    /\ \A q \in Reqs : q # r => res[q].lookup # "hit"

\* C5: when the order INSERT fails, CreateOrder returns the error at once
\* (HTTP 500): no order row, no idempotency write, no event; a request that
\* failed so has attempted neither the idempotency write nor the enqueue.
C5_CreateFailure ==
  [][\A r \in Reqs :
       /\ (CreateStep(r) /\ res'[r].create = "error")
          => /\ pc'[r] = "done"
             /\ ret'[r].err = "error"
             /\ ret'[r].status = StatusInternalServerError
             /\ orders' = orders
             /\ idempotency_keys' = idempotency_keys
             /\ eventChan' = eventChan
       /\ res[r].create = "error"
          => /\ pc'[r] = "done"
             /\ res'[r].store = "none"
             /\ res'[r].emit = "none"
             /\ \A o \in orders' : o.ID # order[r].ID
             /\ \A row \in idempotency_keys' :
                  row.response.kind = "object" => row.response.id # order[r].ID
             /\ \A i \in 1..Len(eventChan') : eventChan'[i].OrderID # order[r].ID]_vars

\* A request whose order INSERT failed although its context was live, after
\* a lookup that missed.
C5_Witness ==
  \E r \in Reqs :
    /\ Done(r)
    /\ ~ctxDone[r]
    /\ res[r] = [lookup |-> "miss", create |-> "error", store |-> "none", emit |-> "none"]
    /\ ret[r].err = "error"
    /\ \E q \in Reqs : q # r /\ Done(q) /\ res[q].emit = "send"

\* C6: a finished CreateOrder has returned an error exactly when its order
\* INSERT failed, whatever the lookup, the idempotency write and the select did.
C6_ErrorIffCreateFailed ==
  \A r \in Reqs :
    Done(r) => /\ ret[r].err \in {"nil", "error"}
               /\ (ret[r].err = "error") <=> (res[r].create = "error")
               /\ (ret[r].status = StatusInternalServerError) <=> (res[r].create = "error")

\* A request returned its order although the lookup and the idempotency write
\* both failed and the event was dropped on a full queue.
C6_Witness ==
  \E r \in Reqs :
    /\ Done(r)
    /\ res[r] = [lookup |-> "error", create |-> "ok", store |-> "error", emit |-> "default"]
    /\ ret[r].err = "nil"

\* C7: when the idempotency write fails, the order row stays, no idempotency
\* record is written, the select is still attempted and the request returns
\* its persisted Order with no error; no record holds that order.
C7_StoreFailure ==
  [][\A r \in Reqs :
       /\ (StoreStep(r) /\ res'[r].store = "error")
          => /\ pc'[r] = "emit"
             /\ orders' = orders
             /\ order[r] \in orders
             /\ idempotency_keys' = idempotency_keys
       /\ (res[r].store = "error" /\ pc[r] = "emit" /\ pc'[r] # "emit")
          => /\ pc'[r] = "done"
             /\ res'[r].emit \in {"send", "ctxDone", "default"}
             /\ ret'[r] = [order |-> order[r], err |-> "nil", status |-> StatusCreated]
             /\ order[r] \in orders'
       /\ res[r].store = "error"
          => \A row \in idempotency_keys' : row.response # MarshalOrder(order[r])]_vars

\* A request returned its persisted order after its idempotency write failed
\* with a live context, and its event was sent.
C7_Witness ==
  \E r \in Reqs :
    /\ Done(r)
    /\ ~ctxDone[r]
    /\ res[r].create = "ok" /\ res[r].store = "error" /\ res[r].emit = "send"
    /\ ret[r].err = "nil"
    /\ ret[r].order \in orders

\* C8: a lookup that ends in a store error, or in a record that does not
\* unmarshal, changes nothing and continues with the creation as a miss does:
\* the order is inserted, the record of the key-triple is written with the new
\* order and the validity, and the select is attempted.
C8_DegradedLookupIsMiss ==
  [][\A r \in Reqs :
       /\ (LookupStep(r) /\ res'[r].lookup \in {"error", "badjson"})
          => /\ pc'[r] = "create"
             /\ ret'[r] = NoRet
             /\ orders' = orders
             /\ idempotency_keys' = idempotency_keys
             /\ eventChan' = eventChan
       /\ (res[r].lookup \in {"error", "badjson", "miss"} /\ CreateStep(r)
             /\ res'[r].create = "ok")
          => /\ pc'[r] = "store"
             /\ orders' = orders \cup {order'[r]}
             /\ order'[r] \notin orders
       /\ (res[r].lookup \in {"error", "badjson", "miss"} /\ StoreStep(r)
             /\ res'[r].store = "ok")
          => /\ pc'[r] = "emit"
             /\ \E row \in idempotency_keys' :
                  /\ RowTriple(row) = Triple(r)
                  /\ row.response = MarshalOrder(order[r])
                  /\ row.valid_to = now + ValidityDuration
             /\ \A row \in idempotency_keys' :
                  RowTriple(row) # Triple(r) => row \in idempotency_keys
       /\ (res[r].lookup \in {"error", "badjson", "miss"} /\ EmitStep(r))
          => res'[r].emit \in {"send", "ctxDone", "default"}
       /\ (Done(r) /\ res[r].lookup \in {"error", "badjson"})
          => res[r].create # "none"]_vars

\* One request found a record that does not unmarshal, another's lookup
\* failed; both created their order, wrote the record and sent the event.
C8_Witness ==
  \E r1, r2 \in Reqs :
    /\ Done(r1) /\ Done(r2)
    /\ res[r1] = [lookup |-> "badjson", create |-> "ok", store |-> "ok", emit |-> "send"]
    /\ res[r2].lookup = "error" /\ res[r2].create = "ok" /\ res[r2].store = "ok"
    /\ res[r2].emit # "none"
    /\ ret[r1].err = "nil" /\ ret[r2].err = "nil"

\* C9: when the select runs with the channel full and the context live, the
\* event is dropped, the channel keeps its contents and the request returns
\* its persisted Order with no error (HTTP 201).
C9_FullQueue ==
  [][\A r \in Reqs :
       (EmitStep(r) /\ Len(eventChan) = EventQueueSize /\ ~ctxDone[r])
       => /\ res'[r].emit = "default"
          /\ eventChan' = eventChan
          /\ pc'[r] = "done"
          /\ ret'[r] = [order |-> order[r], err |-> "nil", status |-> StatusCreated]
          /\ order[r] \in orders']_vars

\* A request returned 201 with its order after the default case of the select.
C9_Witness ==
  \E r \in Reqs :
    /\ Done(r)
    /\ ~ctxDone[r]
    /\ res[r].create = "ok" /\ res[r].emit = "default"
    /\ ret[r].status = StatusCreated
    /\ Len(eventChan) = EventQueueSize
    /\ \A i \in 1..Len(eventChan) : eventChan[i].OrderID # order[r].ID

\* C10 as stated: when the context is cancelled at the select, the event is
\* not placed on the channel, and the request returns its Order with no error.
C10_CancelledAlwaysDropped ==
  [][\A r \in Reqs :
       (EmitStep(r) /\ ctxDone[r])
       => /\ eventChan' = eventChan
          /\ ret'[r] = [order |-> order[r], err |-> "nil", status |-> StatusCreated]]_vars

\* C10 amended: when the context is cancelled at the select, the request
\* returns its persisted Order with no error; with the channel full the event
\* is dropped, and with free capacity it is either dropped or sent.
C10_CancelledAtEnqueue ==
  [][\A r \in Reqs :
       (EmitStep(r) /\ ctxDone[r])
       => /\ pc'[r] = "done"
          /\ ret'[r] = [order |-> order[r], err |-> "nil", status |-> StatusCreated]
          /\ order[r] \in orders'
          /\ res'[r].emit \in {"send", "ctxDone"}
          /\ \/ eventChan' = eventChan
             \/ /\ Len(eventChan) < EventQueueSize
                /\ eventChan' = Append(eventChan, NewEvent(order[r]))
          /\ Len(eventChan) = EventQueueSize => eventChan' = eventChan]_vars

\* A request whose context was cancelled before the select returned its
\* order, and the select sent the event.
C10_Witness ==
  \E r \in Reqs :
    /\ Done(r)
    /\ ctxDone[r]
    /\ res[r].create = "ok" /\ res[r].emit = "send"
    /\ ret[r].err = "nil"
    /\ \E q \in Reqs : q # r /\ Done(q) /\ ctxDone[q] /\ res[q].emit = "ctxDone"

\* C11: a request at the select can always take its step, whatever the queue
\* holds and whether the worker is idle, busy or has returned; the step is one
\* of three cases (sent, dropped on cancellation, dropped on a full channel),
\* returns from CreateOrder and does not touch the worker.
C11_EmitNeverWaits ==
  /\ [](\A r \in Reqs : pc[r] = "emit" => ENABLED Emit(r))
  /\ [][\A r \in Reqs :
          EmitStep(r)
          => /\ pc'[r] = "done"
             /\ ret'[r].err = "nil"
             /\ res'[r].emit \in {"send", "ctxDone", "default"}
             /\ res'[r].emit = "send"
                  => /\ Len(eventChan) < EventQueueSize
                     /\ eventChan' = Append(eventChan, NewEvent(order[r]))
             /\ res'[r].emit = "ctxDone"
                  => ctxDone[r] /\ eventChan' = eventChan
             /\ res'[r].emit = "default"
                  => /\ Len(eventChan) = EventQueueSize
                     /\ ~ctxDone[r]
                     /\ eventChan' = eventChan
             /\ UNCHANGED workerVars]_vars

\* A request returned through the default case on a full channel that the
\* worker, which has returned without processing anything, will not drain.
C11_Witness ==
  \E r \in Reqs :
    /\ Done(r)
    /\ res[r].emit = "default"
    /\ ret[r].err = "nil"
    /\ workerDone
    /\ processed = <<>>
    /\ Len(eventChan) = EventQueueSize

\* C12 as stated: on a healthy database, where a store call fails only by the
\* cancellation of its context, a finished request whose lookup, order INSERT
\* or idempotency write was aborted has returned an error.
C12_CancellationFails ==
  \A r \in Reqs :
    (Done(r) /\ "error" \in {res[r].lookup, res[r].create, res[r].store})
    => ret[r].err = "error"

\* C12 amended: a cancellation that aborts the lookup or the order INSERT ends
\* in an error (HTTP 500) and no order row; one that aborts only the
\* idempotency write is swallowed: the request returns its persisted Order
\* with no error, and no idempotency record holds that Order.
C12_CancellationBeforeInsertFails ==
  \A r \in Reqs :
    Done(r)
    => /\ (res[r].lookup = "error" \/ res[r].create = "error")
          => /\ ctxDone[r]
             /\ ret[r] = [order |-> ZeroOrder, err |-> "error",
                          status |-> StatusInternalServerError]
             /\ \A o \in orders : o.ID # order[r].ID
       /\ (res[r].lookup # "error" /\ res[r].create = "ok" /\ res[r].store = "error")
          => /\ ctxDone[r]
             /\ ret[r] = [order |-> order[r], err |-> "nil", status |-> StatusCreated]
             /\ order[r] \in orders
             /\ \A row \in idempotency_keys : row.response # MarshalOrder(order[r])

\* One request was cancelled before its lookup and failed; another was
\* cancelled between its INSERT and its idempotency write and returned 201.
C12_Witness ==
  \E r1, r2 \in Reqs :
    /\ Done(r1) /\ Done(r2)
    /\ res[r1].lookup = "error" /\ res[r1].create = "error"
    /\ ret[r1].err = "error"
    /\ res[r2].create = "ok" /\ res[r2].store = "error"
    /\ ret[r2].err = "nil"

\* The order ids a log holds.
Logged(log) == {log[i] : i \in 1..Len(log)}

\* C13: no accepted event is lost. The worker receives nothing once it has
\* returned, so every event the channel accepted has been processed by then,
\* and none is accepted after.
C13_NoAcceptedEventLost ==
  workerDone => Logged(emitted) \subseteq Logged(processed)

\* C14: the processed events are accepted events, none of them twice, and
\* never more than were accepted; a receive takes exactly the head off the
\* channel, and each received event is processed by exactly one processEvent,
\* which is the only step that adds to the processed log.
C14_ProcessedAtMostOnce ==
  /\ [](/\ Len(processed) <= Len(emitted)
        /\ Logged(processed) \subseteq Logged(emitted)
        /\ Cardinality(Logged(processed)) = Len(processed))
  /\ [][/\ (workerEvent = NoEvent /\ workerEvent' # NoEvent)
           => /\ eventChan # <<>>
              /\ workerEvent' = Head(eventChan)
              /\ eventChan' = Tail(eventChan)
              /\ processed' = processed
        /\ (workerEvent # NoEvent /\ workerEvent' # workerEvent)
           => /\ workerEvent' = NoEvent
              /\ processed' = Append(processed, workerEvent.OrderID)
              /\ eventChan' = eventChan
        /\ (processed' # processed)
           => (workerEvent # NoEvent /\ workerEvent' = NoEvent)]_vars

\* Two events were accepted and both have been processed; nothing is left in
\* the channel or in the worker's hands.
C14_Witness ==
  /\ Len(processed) = NumReqs
  /\ Logged(processed) = Logged(emitted)
  /\ eventChan = <<>>
  /\ workerEvent = NoEvent

\* The order ids of the events the worker holds or the channel holds, in the
\* order in which they will be processed.
Pending ==
  (IF workerEvent = NoEvent THEN <<>> ELSE <<workerEvent.OrderID>>)
    \o [i \in 1..Len(eventChan) |-> eventChan[i].OrderID]

\* C15: the events are processed in the order in which the channel accepted
\* them: the processed log, then the event in the worker's hands, then the
\* channel's contents, read together, are the accepted log.
C15_FIFO ==
  /\ emitted = processed \o Pending
  /\ \A i \in 1..Len(processed) : processed[i] = emitted[i]

\* Two concurrent producers: the order created second was accepted first, and
\* the worker processed both in the order of acceptance, the channel having
\* room for both.
C15_Witness ==
  /\ EventQueueSize = MaxEventQueueSize
  /\ Len(processed) = NumReqs
  /\ processed = emitted
  /\ processed[1] > processed[Len(processed)]

\* C16: once stopChan is closed or the worker's context is done, the worker
\* returns, main proceeding or not and events waiting or not; at its select
\* each signal by itself enables its case; and a worker that has returned
\* stays so, receives nothing and processes nothing.
C16_WorkerTerminates ==
  /\ (stopChan \/ workerCtxDone) ~> workerDone
  /\ []((~workerDone /\ workerEvent = NoEvent /\ stopChan) => ENABLED WorkerExitStop)
  /\ []((~workerDone /\ workerEvent = NoEvent /\ workerCtxDone) => ENABLED WorkerExitCtx)
  /\ [][workerDone
          => /\ workerDone'
             /\ workerEvent' = workerEvent
             /\ processed' = processed
             /\ Len(eventChan') >= Len(eventChan)]_vars

\* The worker has returned on the stop signal alone, main not having
\* cancelled its context yet, and an accepted event is left in the channel.
C16_Witness ==
  /\ workerDone
  /\ mainPc = "stopped"
  /\ stopChan /\ ~workerCtxDone
  /\ eventChan # <<>>

\* C17: when the worker is signalled to stop the listeners are closed already;
\* when srv.Shutdown's wait is over the worker has been signalled; and no
\* request sends an event to the channel after the worker was signalled.
C17_ShutdownOrdering ==
  /\ []((stopChan \/ workerCtxDone) => ~Accepting)
  /\ [](mainPc = "exited" => (stopChan /\ workerCtxDone))
  /\ [][\A r \in Reqs :
          (EmitStep(r) /\ res'[r].emit = "send") => ~(stopChan \/ workerCtxDone)]_vars

\* Handler r is the only one that has presented its key-triple, q apart.
OnlyUsers(r, q) ==
  \A p \in Handlers \ {r, q} : pc[p] # "idle" => Triple(p) # Triple(r)

\* C18: with every store operation succeeding, a finished request that alone
\* presented its key-triple has created exactly one order row, whatever the
\* other requests did meanwhile, and the triple's record holds that order; a
\* later request with the same key-triple, in the window, returns that order
\* and creates nothing.
C18_DistinctKeysIndependent ==
  /\ \A r \in Handlers :
       (Done(r) /\ OnlyUsers(r, r))
       => /\ res[r] \in {[lookup |-> "miss", create |-> "ok", store |-> "ok", emit |-> c] :
                            c \in {"send", "default"}}
          /\ ret[r] = [order |-> order[r], err |-> "nil", status |-> StatusCreated]
          /\ {o \in orders : o.ID = order[r].ID} = {order[r]}
          /\ {o \in orders : \E p \in Handlers \ {r} : o = order[p]} = orders \ {order[r]}
          /\ {row.response : row \in {w \in idempotency_keys : RowTriple(w) = Triple(r)}}
               = {MarshalOrder(order[r])}
  /\ \A q \in Reqs, r \in Handlers :
       (Done(q) /\ Done(r) /\ q \in before[r] /\ Triple(q) = Triple(r)
          /\ OnlyUsers(q, r))
       => /\ res[q].create = "ok"
          /\ res[r] = [lookup |-> "hit", create |-> "none", store |-> "none",
                        emit |-> "none"]
          /\ ret[r] = [order |-> order[q], err |-> "nil", status |-> StatusCreated]
  /\ Cardinality(orders) = Cardinality({r \in Handlers : res[r].create = "ok"})

\* Two requests with different keys ran side by side and each created its
\* order; the third handler then replayed the key of the request whose order
\* was created first although it began second, and got that order.
C18_Witness ==
  \E q \in Reqs, p \in Reqs :
    /\ Triple(q) # Triple(p)
    /\ Done(q) /\ Done(p) /\ Done(Replayer)
    /\ p \notin before[q] /\ q \notin before[p]
    /\ q > p /\ order[q].ID < order[p].ID
    /\ before[Replayer] = Reqs
    /\ Triple(Replayer) = Triple(q)
    /\ res[Replayer].lookup = "hit"
    /\ ret[Replayer].order = order[q]
    /\ Cardinality(orders) = NumReqs

\* C19: an Order returned without error has an identifier; the order rows
\* have pairwise distinct identifiers; requests with different key-triples
\* are never returned the same identifier; a request's order gets its
\* identifier in the INSERT step and keeps it, and no order row is ever
\* changed or removed.
C19_Identifiers ==
  /\ [](/\ \A r \in Reqs :
             (Done(r) /\ ret[r].err = "nil") => ret[r].order.ID # NoID
        /\ \A o1, o2 \in orders : o1.ID = o2.ID => o1 = o2
        /\ \A o \in orders : o.ID # NoID
        /\ \A r1, r2 \in Reqs :
             (Done(r1) /\ Done(r2) /\ ret[r1].err = "nil" /\ ret[r2].err = "nil"
                /\ Triple(r1) # Triple(r2))
             => ret[r1].order.ID # ret[r2].order.ID)
  /\ [][/\ orders \subseteq orders'
        /\ \A r \in Reqs :
             /\ (order'[r].ID # order[r].ID) => (CreateStep(r) /\ order[r].ID = NoID)
             /\ (CreateStep(r) /\ res'[r].create = "ok")
                => /\ order'[r].ID # NoID
                   /\ orders' = orders \cup {order'[r]}
                   /\ \A o \in orders : o.ID # order'[r].ID]_vars

\* Two requests with different keys have returned orders with different
\* identifiers, and these are the two order rows.
C19_Witness ==
  \E r1, r2 \in Reqs :
    /\ Triple(r1) # Triple(r2)
    /\ Done(r1) /\ Done(r2)
    /\ ret[r1].err = "nil" /\ ret[r2].err = "nil"
    /\ ret[r1].order.ID # NoID /\ ret[r2].order.ID # NoID
    /\ ret[r1].order.ID # ret[r2].order.ID
    /\ {ret[r1].order, ret[r2].order} = orders

\* The body's quantity is not a positive integer, or its total_price is
\* negative, or a required member is absent.
Defective(b) ==
  \/ b.quantity.kind # "number" \/ b.quantity.val < 1
  \/ b.total_price.kind = "number" /\ b.total_price.val < 0
  \/ "absent" \in {b.customer_id.kind, b.product_id.kind, b.quantity.kind,
                    b.total_price.kind, b.idempotency_key.kind}

\* C20: a request with such a body is answered 400 in the step that receives
\* it, CreateOrder is not called for it (no call, no step outcome, then or
\* later), and the orders, the idempotency records and the channel are as
\* they were.
C20_ValidationRejects ==
  /\ [](\A r \in Reqs :
          (pc[r] # "idle" /\ Defective(body[r]))
          => /\ pc[r] = "rejected"
             /\ ret[r] = [order |-> ZeroOrder, err |-> "none", status |-> StatusBadRequest]
             /\ call[r] = NoCall
             /\ res[r] = NoRes
             /\ order[r] = ZeroOrder)
  /\ [][\A r \in Reqs :
          (pc[r] = "idle" /\ pc'[r] # "idle" /\ Defective(body'[r]))
          => /\ orders' = orders
             /\ idempotency_keys' = idempotency_keys
             /\ eventChan' = eventChan
             /\ uuidSeq' = uuidSeq
             /\ emitted' = emitted]_vars

\* A request with quantity zero was answered 400 and another request created
\* its order: that order's row and record are all there is.
C20_Witness ==
  \E r, q \in Reqs :
    /\ pc[r] = "rejected"
    /\ body[r].quantity = Num(0)
    /\ ret[r].status = StatusBadRequest
    /\ Done(q) /\ res[q].store = "ok"
    /\ orders = {order[q]}
    /\ Cardinality(idempotency_keys) = 1

\* The body supplies customer_id, product_id and idempotency_key, a quantity
\* of at least 1 and a total_price that is not negative.
WellFormed(b) ==
  /\ b.customer_id.kind = "string" /\ b.customer_id.val # ""
  /\ b.product_id.kind = "string" /\ b.product_id.val # ""
  /\ b.idempotency_key.kind = "string" /\ b.idempotency_key.val # ""
  /\ b.quantity.kind = "number" /\ b.quantity.val >= 1
  /\ b.total_price.kind = "number" /\ b.total_price.val >= 0

\* C21: a request with such a body, with or without order_time, is not
\* answered 400.
C21_ValidationAccepts ==
  \A r \in Reqs :
    (pc[r] # "idle" /\ WellFormed(body[r]))
    => (pc[r] # "rejected" /\ ret[r].status # StatusBadRequest)

\* C22: when the store answers, a GET for an id without a row ends in
\* ErrOrderNotFound and 404, and a GET for an id with a row returns that row
\* with 200; when the store fails the answer is 500. So 404 is written only
\* when no row has the id, and 500 only when the store failed.
C22_GetOrderByID ==
  /\ [](got # NoGot =>
          /\ got.status \in {StatusOK, StatusNotFound, StatusInternalServerError}
          /\ got.status = StatusInternalServerError <=> got.failed
          /\ got.status = StatusNotFound <=> got.err = "ErrOrderNotFound"
          /\ got.status = StatusOK <=> got.err = "nil"
          /\ got.status = StatusOK => (got.order.ID = got.id /\ got.order \in orders)
          /\ got.status # StatusOK => got.order = ZeroOrder)
  /\ [][got' # got =>
          /\ got'.status = StatusNotFound => ~\E o \in orders : o.ID = got'.id
          /\ got'.status = StatusOK => \E o \in orders : o.ID = got'.id
          /\ (~got'.failed /\ ~\E o \in orders : o.ID = got'.id)
               => got'.status = StatusNotFound
          /\ (~got'.failed /\ \E o \in orders : o.ID = got'.id)
               => (got'.status = StatusOK /\ got'.order \in orders)]_vars

\* C22 witness: with orders in the table, the store answered a GET for an id
\* that no row has, and the handler wrote 404.
C22_Witness ==
  /\ got.status = StatusNotFound
  /\ ~got.failed
  /\ orders # {}
  /\ ~\E o \in orders : o.ID = got.id

\* C23: a second request with the same key that begins after the first one
\* succeeded returns the first one's order and creates no second row, however
\* much time has passed (no store operation failed, nothing was cancelled).
C23_ReplayAtAnyTime ==
  \A r1, r2 \in Reqs :
    ( /\ Done(r1) /\ Done(r2)
      /\ r1 \in before[r2]
      /\ Triple(r1) = Triple(r2)
      /\ ret[r1].err = "nil"
      /\ AllStoreOpsSucceeded )
    => /\ ret[r2].order = ret[r1].order
       /\ Cardinality(RowsFor(Triple(r1))) = 1

\* The state createOrder is in after a lookup that found nothing to replay:
\* it goes on to the insert with no saved response and has touched nothing
\* but the note of how the lookup ended.
AfterLookup(r) ==
  /\ pc' = [pc EXCEPT ![r] = "create"]
  /\ saved' = [saved EXCEPT ![r] = NilBytes]
  /\ \A q \in Handlers : q # r => res'[q] = res[q]
  /\ res'[r].create = res[r].create /\ res'[r].store = res[r].store
  /\ res'[r].emit = res[r].emit
  /\ UNCHANGED <<EventQueueSize, mainPc, stopChan, workerCtxDone, workerDone,
                 emitted, processed, body, now, uuidSeq, orders, idempotency_keys,
                 eventChan, workerEvent, call, ctxDone, order, ret, before, got>>

\* The lookup of r ends as x and leaves createOrder in that state.
LookupEndsAs(r, x) == Lookup(r) /\ res'[r].lookup = x /\ AfterLookup(r)

\* C24: from a state in which the lookup of a live request can return
\* not-found, it can also return a store error, and the two lead to the same
\* state in every variable of the program (they differ in the note of how the
\* lookup ended, which no step reads); so with the same later outcomes the
\* response, the tables and the queue are the same. Every lookup that ends
\* in not-found or in an error leads to that state.
C24_LookupErrorLikeNotFound ==
  /\ [](\A r \in Reqs :
          ( /\ pc[r] = "lookup"
            /\ ~ctxDone[r]
            /\ ValidRows(call[r].endpointName, call[r].endpointScheme,
                         call[r].req.IdempotencyKey) = {} )
          => /\ ENABLED LookupEndsAs(r, "miss")
             /\ ENABLED LookupEndsAs(r, "error"))
  /\ [][\A r \in Reqs :
          (LookupStep(r) /\ res'[r].lookup \in {"miss", "error"})
          => AfterLookup(r)]_vars

\* C24 witness: the lookup of a live request whose key-triple no other request
\* has used ended in a store error, and the request returned its new order.
C24_Witness ==
  \E r \in Reqs :
    /\ Done(r) /\ ~ctxDone[r]
    /\ res[r].lookup = "error"
    /\ \A q \in Reqs \ {r} : pc[q] = "idle" \/ Triple(q) # Triple(r)
    /\ res[r].create = "ok" /\ ret[r].err = "nil" /\ ret[r].order = order[r]
    /\ MarshalOrder(order[r]) \in {row.response : row \in idempotency_keys}
    /\ order[r].ID \in Logged(emitted)

\* The endpoint identity of a request's call.
Endpoint(r) == <<call[r].endpointName, call[r].endpointScheme>>

\* C25: a lookup returns only a record written under its own endpoint name,
\* scheme and key, so a returned order was created by a request with the same
\* endpoint identity; a request whose key was used before only under other
\* endpoint identities finds no record and inserts its own order.
C25_EndpointScoping ==
  /\ [](\A r \in Reqs :
          (Done(r) /\ ret[r].err = "nil")
          => \E q \in Reqs : /\ Endpoint(q) = Endpoint(r)
                              /\ Triple(q) = Triple(r)
                              /\ res[q].create = "ok"
                              /\ ret[r].order = order[q])
  /\ [](\A row \in idempotency_keys :
          \E q \in Reqs : /\ RowTriple(row) = Triple(q)
                          /\ row.response = MarshalOrder(order[q]))
  /\ [][\A r \in Reqs :
          LookupStep(r) =>
            /\ saved'[r] # NilBytes
                 => \E row \in idempotency_keys :
                      /\ row.endpoint_name = call[r].endpointName
                      /\ row.endpoint_scheme = call[r].endpointScheme
                      /\ row.key = call[r].req.IdempotencyKey
                      /\ row.response = saved'[r]
            /\ (\A q \in Reqs \ {r} : pc[q] # "idle" => Endpoint(q) # Endpoint(r))
                 => /\ saved'[r] = NilBytes
                    /\ pc'[r] = "create"]_vars
  /\ [][\A r \in Reqs :
          ( /\ CreateStep(r) /\ res'[r].create = "ok"
            /\ \A q \in Reqs \ {r} : pc[q] # "idle" => Endpoint(q) # Endpoint(r) )
          => /\ order'[r] \notin orders
             /\ orders' = orders \cup {order'[r]}]_vars

\* C25 witness: two requests used the same key under different endpoint
\* identities, one after the other; the second found no record although the
\* first one's record was there, and each returned an order of its own.
C25_Witness ==
  \E q, r \in Reqs :
    /\ Done(q) /\ Done(r) /\ q \in before[r]
    /\ call[q].req.IdempotencyKey = call[r].req.IdempotencyKey
    /\ call[q].endpointName # call[r].endpointName
    /\ res[q].store = "ok"
    /\ \E row \in idempotency_keys : RowTriple(row) = Triple(q)
    /\ res[r].lookup = "miss" /\ res[r].create = "ok"
    /\ ret[q].err = "nil" /\ ret[r].err = "nil"
    /\ ret[q].order.ID # ret[r].order.ID
    /\ Cardinality(orders) = NumReqs

\* The records of key-triple t in a table.
RecordsOf(table, t) == {row \in table : RowTriple(row) = t}

\* C26: the table never holds two records with the same endpoint name, scheme
\* and key. A put that succeeds leaves exactly one record for its key-triple,
\* holding the response and the expiry of this put (ten minutes after the
\* write) whatever was there before, and leaves the records of the other
\* key-triples as they were. Nothing else changes the table.
C26_UpsertKeepsOneRecord ==
  /\ [](\A row1, row2 \in idempotency_keys :
          RowTriple(row1) = RowTriple(row2) => row1 = row2)
  /\ [][\A r \in Reqs :
          (StoreStep(r) /\ res'[r].store = "ok")
          => /\ \E row \in idempotency_keys' :
                  /\ RecordsOf(idempotency_keys', Triple(r)) = {row}
                  /\ row.response = MarshalOrder(order[r])
                  /\ row.valid_to = now + ValidityDuration
             /\ idempotency_keys' \ RecordsOf(idempotency_keys', Triple(r))
                  = idempotency_keys \ RecordsOf(idempotency_keys, Triple(r))]_vars
  /\ [][idempotency_keys' # idempotency_keys
          => \E r \in Reqs : StoreStep(r) /\ res'[r].store = "ok"]_vars

\* C26 witness: two requests with the same key-triple each put a record; the
\* table holds one record for the triple, first written at the start, now
\* carrying the later order and an expiry past the first window.
C26_Witness ==
  \E q, r \in Reqs :
    /\ q # r /\ Triple(q) = Triple(r)
    /\ res[q].store = "ok" /\ res[r].store = "ok"
    /\ order[q] # order[r]
    /\ \E row \in idempotency_keys :
         /\ RecordsOf(idempotency_keys, Triple(r)) = {row}
         /\ row.created_at = StartTime
         /\ row.response = MarshalOrder(order[r])
         /\ row.valid_to > StartTime + ValidityDuration

\* The identifiers of the rows of table orders.
OrderIDs == {o.ID : o \in orders}

\* C27: in every state, the Order cached in each idempotency record is a row
\* of table orders, and every event in the channel, in the worker's hands or
\* logged as emitted or processed carries the id of a row of table orders.
C27_RecordsAndEventsFollowOrders ==
  /\ \A row \in idempotency_keys :
       /\ ~UnmarshalOrder(row.response).err
       /\ UnmarshalOrder(row.response).order \in orders
  /\ \A i \in 1..Len(eventChan) : eventChan[i].OrderID \in OrderIDs
  /\ workerEvent # NoEvent => workerEvent.OrderID \in OrderIDs
  /\ Logged(emitted) \subseteq OrderIDs
  /\ Logged(processed) \subseteq OrderIDs

\* C27 witness: two orders exist, each with its record; the event of one is
\* being processed while the event of the other waits in the channel.
C27_Witness ==
  /\ Cardinality(orders) = NumReqs
  /\ Cardinality(idempotency_keys) = NumReqs
  /\ workerEvent # NoEvent
  /\ Len(eventChan) = 1
  /\ workerEvent.OrderID # eventChan[1].OrderID

\* C28: a request that inserted its order runs the select once, with one
\* event built from that order, and the channel accepts it or it is dropped;
\* a request that inserted nothing builds no event. So the events ever
\* accepted are no more than the order rows and no two of them carry the same
\* order id.
C28_OneEventPerOrder ==
  /\ [](/\ Len(emitted) <= Cardinality(orders)
        /\ \A i, j \in 1..Len(emitted) : emitted[i] = emitted[j] => i = j
        /\ \A r \in Reqs :
             Done(r) =>
               /\ res[r].create = "ok" <=> res[r].emit \in {"send", "ctxDone", "default"}
               /\ res[r].create # "ok" <=> res[r].emit = "none"
               /\ res[r].emit = "send" <=> order[r].ID \in Logged(emitted))
  /\ [][\A r \in Reqs :
          EmitStep(r)
          => /\ res[r].create = "ok" /\ res[r].emit = "none"
             /\ pc'[r] = "done"
             /\ \/ /\ res'[r].emit = "send"
                   /\ eventChan' = Append(eventChan, NewEvent(order[r]))
                   /\ emitted' = Append(emitted, order[r].ID)
                \/ /\ res'[r].emit \in {"ctxDone", "default"}
                   /\ eventChan' = eventChan
                   /\ emitted' = emitted]_vars
  /\ [][(emitted' # emitted \/ Len(eventChan') > Len(eventChan))
          => \E r \in Reqs : EmitStep(r)]_vars

\* C28 witness: two orders were created; the event of one was accepted and
\* processed, the event of the other was dropped on a full channel.
C28_Witness ==
  \E q, r \in Reqs :
    /\ Done(q) /\ Done(r)
    /\ res[q].emit = "send" /\ res[r].emit = "default"
    /\ Cardinality(orders) = NumReqs
    /\ emitted = <<order[q].ID>>
    /\ processed = emitted

\* C29: the channel never holds more events than its capacity, however many
\* handlers reach the select; a select that runs while the channel holds
\* capacity-many events does not take the send case and leaves the channel as
\* it is; the channel grows by one event at a time.
C29_BoundedQueue ==
  /\ [](Len(eventChan) \in 0..EventQueueSize)
  /\ [][\A r \in Handlers :
          (EmitStep(r) /\ Len(eventChan) = EventQueueSize)
          => /\ res'[r].emit # "send"
             /\ eventChan' = eventChan
             /\ emitted' = emitted]_vars
  /\ [][Len(eventChan') <= Len(eventChan) + 1]_vars

\* C29 witness: with the largest capacity, three handlers reached the select
\* before the worker received anything; the channel is full and the last
\* handler's event was not added.
C29_Witness ==
  /\ EventQueueSize = MaxEventQueueSize
  /\ Len(eventChan) = EventQueueSize
  /\ workerEvent = NoEvent /\ processed = <<>>
  /\ \A r \in Handlers : Done(r) /\ res[r].create = "ok"
  /\ \E r \in Handlers : res[r].emit = "default"

\* C30: with no shutdown signal and the worker scheduled, every event the
\* channel accepted is processed in the end, and a full channel gets room
\* again, where a handler at its select can send.
C30_ServingLiveness ==
  /\ \A id \in 1..(NumReqs + 1) :
       (id \in Logged(emitted)) ~> (id \in Logged(processed))
  /\ (Len(eventChan) = EventQueueSize) ~> (Len(eventChan) < EventQueueSize)
  /\ [](\A r \in Handlers :
          (pc[r] = "emit" /\ Len(eventChan) < EventQueueSize)
          => ENABLED (Emit(r) /\ res'[r].emit = "send"))
  /\ [](~stopChan /\ ~workerCtxDone /\ ~workerDone)

\* C30 witness: the channel was full and a handler's event was dropped; the
\* worker made room, a later handler's event was accepted, and every
\* accepted event has been processed.
C30_Witness ==
  \E q, r \in Handlers :
    /\ q \in before[r]
    /\ Done(q) /\ res[q].emit = "default"
    /\ Done(r) /\ res[r].emit = "send"
    /\ Len(emitted) = NumReqs
    /\ processed = emitted
    /\ eventChan = <<>> /\ workerEvent = NoEvent

\* The handlers that have called createOrder with key-triple t.
Callers(t) == {q \in Handlers : pc[q] # "idle" /\ Triple(q) = t}

\* The handlers with key-triple t that have written the idempotency record.
Writers(t) == {q \in Callers(t) : res[q].store = "ok"}

\* C31: when all the requests that called createOrder with one key-triple
\* have returned and one of them has written the record, the table holds one
\* record for the triple and its cached Order is the order row of one of the
\* writers; each write puts the writer's order there, so it is that of the
\* last write. A request with the same key-triple that begins after all of
\* them have returned, the clock standing in the window, finds that record,
\* returns its Order and creates nothing.
C31_ConvergenceAfterRace ==
  /\ [](\A r \in Handlers :
          ( /\ Writers(Triple(r)) # {}
            /\ \A q \in Callers(Triple(r)) : Done(q) )
          => \E row \in idempotency_keys :
               /\ RecordsOf(idempotency_keys, Triple(r)) = {row}
               /\ row.valid_to > now
               /\ \E q \in Writers(Triple(r)) :
                    /\ row.response = MarshalOrder(order[q])
                    /\ order[q] \in orders)
  /\ [][\A r \in Handlers :
          (StoreStep(r) /\ res'[r].store = "ok")
          => {row.response : row \in RecordsOf(idempotency_keys', Triple(r))}
               = {MarshalOrder(order[r])}]_vars
  /\ [][\A r \in Handlers :
          RecordsOf(idempotency_keys', Triple(r)) # RecordsOf(idempotency_keys, Triple(r))
          => \E q \in Handlers : /\ Triple(q) = Triple(r)
                                  /\ StoreStep(q) /\ res'[q].store = "ok"]_vars
  /\ [](\A p \in Handlers :
          ( /\ Done(p)
            /\ Callers(Triple(p)) \ {p} \subseteq before[p]
            /\ Writers(Triple(p)) \ {p} # {} )
          => /\ res[p] = [lookup |-> "hit", create |-> "none", store |-> "none",
                           emit |-> "none"]
             /\ ret[p].err = "nil"
             /\ \E row \in idempotency_keys :
                  /\ RecordsOf(idempotency_keys, Triple(p)) = {row}
                  /\ MarshalOrder(ret[p].order) = row.response
             /\ ret[p].order \in orders)

\* C31 witness: two requests with one key-triple raced and each inserted an
\* order; the one that inserted first wrote the record last, so the record
\* holds the older order. The third request began after both had returned
\* and got that order; the table has the two racers' rows and no more.
C31_Witness ==
  \E q, r \in Reqs :
    /\ q # r /\ Triple(q) = Triple(r) /\ Triple(Replayer) = Triple(r)
    /\ q \notin before[r] /\ r \notin before[q]
    /\ res[q].create = "ok" /\ res[r].create = "ok"
    /\ order[q].ID < order[r].ID
    /\ before[Replayer] = Reqs
    /\ Done(Replayer)
    /\ ret[Replayer].order = order[q]
    /\ Cardinality(orders) = NumReqs
====
